---------------------------- MODULE Spec2Model ----------------------------
(***************************************************************************)
(* State machine of the Home component of src/Home.tsx: the snapshot       *)
(* history (history, historyIndex), the floating overlay (uploadedImage),  *)
(* the pointer gesture state (isDrawing, interactionState), the generation *)
(* request state (isLoading, prompt, error modal) and the callbacks the    *)
(* handlers leave pending (image loads, file decodes, generation calls).   *)
(*                                                                         *)
(* React semantics used throughout: a handler or callback reads the state  *)
(* of the render in which it was created.  A handler invoked by an event   *)
(* is the one of the latest render; a callback scheduled by a handler      *)
(* (baseImage.onload, img.onload, the continuation of an await) keeps the  *)
(* values of the render that scheduled it until it runs.  Each pending     *)
(* callback therefore carries the history, historyIndex and uploadedImage  *)
(* it has captured.  The component is re-rendered between any two events.  *)
(*                                                                         *)
(* Numbers are exact rationals <<numerator, denominator>>: the overlay     *)
(* geometry is computed with divisions (width / aspectRatio).              *)
(*                                                                         *)
(* The pixels of the live canvas are not state of the model: a snapshot    *)
(* records how its raster was produced (white fill, live canvas, base      *)
(* snapshot plus overlay rectangle, generated image).                      *)
(***************************************************************************)
EXTENDS Integers, Sequences, FiniteSets, Bags, TLC

VARIABLES
    history,            \* useState<HistoryItem[]>
    historyIndex,       \* useState(-1), 0-based as in the source
    uploadedImage,      \* useState<UploadedImage | null>
    interactionState,   \* useState<InteractionState | null>
    isDrawing,          \* useState(false)
    isLoading,          \* useState(false)
    prompt,             \* useState('')
    showErrorModal,     \* useState(false)
    errorMessage,       \* useState('')
    tasks,              \* bag of pending callbacks
    nextId,             \* number of crypto.randomUUID() values drawn so far
    nUploads,           \* number of files handed to processImageFile so far
    nSubmits            \* number of generation requests sent so far

vars == <<history, historyIndex, uploadedImage, interactionState, isDrawing,
          isLoading, prompt, showErrorModal, errorMessage, tasks, nextId,
          nUploads, nSubmits>>

---------------------------------------------------------------------------
(* Bounds of the model *)

(* snapshots committed or still to be committed, files uploaded and        *)
(* generation requests sent, together                                      *)
MaxWork == 5

(* Program constants *)

HANDLE_SIZE == 10
CanvasWidth == 960
CanvasHeight == 540

---------------------------------------------------------------------------
(* Exact rational arithmetic *)

Abs(n) == IF n < 0 THEN -n ELSE n

RECURSIVE GCD(_, _)
GCD(a, b) == IF b = 0 THEN a ELSE GCD(b, a % b)

Norm(n, d) ==
    LET s == IF d < 0 THEN -1 ELSE 1
        g == GCD(Abs(n), Abs(d))
    IN  <<(s * n) \div g, (s * d) \div g>>

R(n) == <<n, 1>>
RAdd(a, b) == Norm(a[1] * b[2] + b[1] * a[2], a[2] * b[2])
RSub(a, b) == Norm(a[1] * b[2] - b[1] * a[2], a[2] * b[2])
RMul(a, b) == Norm(a[1] * b[1], a[2] * b[2])
RDiv(a, b) == Norm(a[1] * b[2], a[2] * b[1])
RLe(a, b) == a[1] * b[2] <= b[1] * a[2]
RLt(a, b) == a[1] * b[2] < b[1] * a[2]
RMax(a, b) == IF RLe(a, b) THEN b ELSE a
RMin(a, b) == IF RLe(a, b) THEN a ELSE b

---------------------------------------------------------------------------
(* Values *)

(* uploadedImage === null; an overlay's img is the number of its upload *)
NoImage == [img |-> 0, x |-> R(0), y |-> R(0), width |-> R(0),
            height |-> R(0), aspectRatio |-> R(1)]
NoInteraction == [type |-> "none"]  \* interactionState === null

HandleNames == <<"topLeft", "topRight", "bottomLeft", "bottomRight">>

(* Inputs: files (native width, height), pointer positions, prompt texts *)
FileSizes == {<<800, 400>>}
DownPoints == {<<480, 270>>, <<864, 462>>, <<866, 464>>, <<900, 500>>}
MovePoints == {<<-136, -38>>}
Prompts == {"p", "q"}
Models == {"edit", "imagen", "describe"}

---------------------------------------------------------------------------
(* Overlay geometry *)

MaxFraction == <<4, 5>>         \* the 0.8 of maxW and maxH

(* variant: only the width is limited *)
PlaceWidthOnly(f, nw, nh) ==
    LET maxW == RMul(R(CanvasWidth), MaxFraction)
        over1 == RLt(maxW, R(nw))
        w1 == IF over1 THEN maxW ELSE R(nw)
        h1 == IF over1 THEN RMul(R(nh), RDiv(maxW, R(nw))) ELSE R(nh)
    IN  [img |-> f,
         x |-> RDiv(RSub(R(CanvasWidth), w1), R(2)),
         y |-> RDiv(RSub(R(CanvasHeight), h1), R(2)),
         width |-> w1,
         height |-> h1,
         aspectRatio |-> RDiv(R(nw), R(nh))]

(* processImageFile, img.onload: size to at most 80% of the canvas keeping *)
(* the native aspect ratio, center.                                        *)
Place(f, nw, nh) ==
    LET maxW == RMul(R(CanvasWidth), MaxFraction)
        maxH == RMul(R(CanvasHeight), MaxFraction)
        w0 == R(nw)
        h0 == R(nh)
        over1 == RLt(maxW, w0)
        h1 == IF over1 THEN RMul(h0, RDiv(maxW, w0)) ELSE h0
        w1 == IF over1 THEN maxW ELSE w0
        over2 == RLt(maxH, h1)
        w2 == IF over2 THEN RMul(w1, RDiv(maxH, h1)) ELSE w1
        h2 == IF over2 THEN maxH ELSE h1
    IN  [img |-> f,
         x |-> RDiv(RSub(R(CanvasWidth), w2), R(2)),
         y |-> RDiv(RSub(R(CanvasHeight), h2), R(2)),
         width |-> w2,
         height |-> h2,
         aspectRatio |-> RDiv(R(nw), R(nh))]

(* getHandles: the four corner hit-boxes, in the order of the object keys *)
GetHandles(image) ==
    LET halfHandle == RDiv(R(HANDLE_SIZE), R(2))
        left == RSub(image.x, halfHandle)
        right == RSub(RAdd(image.x, image.width), halfHandle)
        top == RSub(image.y, halfHandle)
        bottom == RSub(RAdd(image.y, image.height), halfHandle)
        box(hx, hy) == [x |-> hx, y |-> hy,
                        width |-> R(HANDLE_SIZE), height |-> R(HANDLE_SIZE)]
    IN  [topLeft |-> box(left, top),
         topRight |-> box(right, top),
         bottomLeft |-> box(left, bottom),
         bottomRight |-> box(right, bottom)]

(* the rectangle test of handleCanvasMouseDown, borders included *)
InRect(cx, cy, rect) ==
    /\ RLe(rect.x, cx)
    /\ RLe(cx, RAdd(rect.x, rect.width))
    /\ RLe(rect.y, cy)
    /\ RLe(cy, RAdd(rect.y, rect.height))

(* the first handle, in key order, whose hit-box holds the point; "none" *)
HitHandle(image, cx, cy) ==
    LET handles == GetHandles(image)
        hits == {i \in 1..4 : InRect(cx, cy, handles[HandleNames[i]])}
    IN  IF hits = {} THEN "none"
        ELSE HandleNames[CHOOSE i \in hits : \A j \in hits : i <= j]

(* variant: the delta is added to the overlay's current position *)
DragMoveIncremental(image, st, cx, cy) ==
    LET dx == RSub(cx, st.startX)
        dy == RSub(cy, st.startY)
        newX == RAdd(image.x, dx)
        newY == RAdd(image.y, dy)
    IN  [image EXCEPT
            !.x = RMax(R(0), RMin(RSub(R(CanvasWidth), image.width), newX)),
            !.y = RMax(R(0), RMin(RSub(R(CanvasHeight), image.height), newY))]

(* handleCanvasMouseMove, drag branch *)
DragMove(image, st, cx, cy) ==
    LET dx == RSub(cx, st.startX)
        dy == RSub(cy, st.startY)
        newX == RAdd(st.initialX, dx)
        newY == RAdd(st.initialY, dy)
    IN  [image EXCEPT
            !.x = RMax(R(0), RMin(RSub(R(CanvasWidth), image.width), newX)),
            !.y = RMax(R(0), RMin(RSub(R(CanvasHeight), image.height), newY))]

(* variant: the height follows the pointer instead of the width *)
ResizeCandidateFree(image, st, cx, cy) ==
    LET dx == RSub(cx, st.startX)
        dy == RSub(cy, st.startY)
    IN  [x |-> st.initialX, y |-> st.initialY,
         width |-> RMax(R(HANDLE_SIZE * 2), RAdd(st.initialWidth, dx)),
         height |-> RMax(R(HANDLE_SIZE * 2), RAdd(st.initialHeight, dy))]

(* variant: the width follows the pointer with no minimum *)
ResizeCandidateNoMin(image, st, cx, cy) ==
    LET dx == RSub(cx, st.startX)
        dy == RSub(cy, st.startY)
        newW == IF st.handle \in {"bottomRight", "topRight"}
                THEN RAdd(st.initialWidth, dx)
                ELSE RSub(st.initialWidth, dx)
        newH == RDiv(newW, image.aspectRatio)
        newX == IF st.handle \in {"bottomLeft", "topLeft"}
                THEN RAdd(st.initialX, dx) ELSE st.initialX
        newY == CASE st.handle = "topLeft" -> RAdd(st.initialY, dy)
                  [] st.handle = "topRight" ->
                        RSub(st.initialY, RSub(newH, st.initialHeight))
                  [] OTHER -> st.initialY
    IN  [x |-> newX, y |-> newY, width |-> newW, height |-> newH]

(* handleCanvasMouseMove, resize branch: the candidate rectangle *)
ResizeCandidate(image, st, cx, cy) ==
    LET dx == RSub(cx, st.startX)
        dy == RSub(cy, st.startY)
        minW == R(HANDLE_SIZE * 2)
        grow == RMax(minW, RAdd(st.initialWidth, dx))
        shrink == RMax(minW, RSub(st.initialWidth, dx))
        newW == IF st.handle \in {"bottomRight", "topRight"} THEN grow
                ELSE shrink
        newH == RDiv(newW, image.aspectRatio)
        newX == IF st.handle \in {"bottomLeft", "topLeft"}
                THEN RAdd(st.initialX, dx) ELSE st.initialX
        newY == CASE st.handle = "topLeft" -> RAdd(st.initialY, dy)
                  [] st.handle = "topRight" ->
                        RSub(st.initialY, RSub(newH, st.initialHeight))
                  [] OTHER -> st.initialY
    IN  [x |-> newX, y |-> newY, width |-> newW, height |-> newH]

(* variant: the candidate is taken without the bounds test *)
ResizeMoveUnchecked(image, st, cx, cy) ==
    LET c == ResizeCandidate(image, st, cx, cy)
    IN  [image EXCEPT !.x = c.x, !.y = c.y,
                      !.width = c.width, !.height = c.height]

(* handleCanvasMouseMove, resize branch: accept the candidate or keep *)
ResizeMove(image, st, cx, cy) ==
    LET c == ResizeCandidate(image, st, cx, cy)
    IN  IF /\ RLe(R(0), c.x)
           /\ RLe(R(0), c.y)
           /\ RLe(RAdd(c.x, c.width), R(CanvasWidth))
           /\ RLe(RAdd(c.y, c.height), R(CanvasHeight))
        THEN [image EXCEPT !.x = c.x, !.y = c.y,
                           !.width = c.width, !.height = c.height]
        ELSE image

---------------------------------------------------------------------------
(* History *)

(* the rasters a snapshot can hold, by the way the handler produced them *)
WhiteRaster == [kind |-> "white"]       \* fillRect white, toDataURL
CanvasRaster == [kind |-> "canvas"]     \* toDataURL of the live canvas
GenRaster(req) == [kind |-> "gen", req |-> req]
FallbackBase == 0                       \* the 1x1 PNG used when no snapshot

(* flattenImage, baseImage.onload: clearRect, drawImage(baseImage),       *)
(* drawImage(uploadedImage.img, x, y, width, height)                      *)
FlatRaster(h, i, image) ==
    [kind |-> "flat",
     base |-> IF i >= 0 /\ i < Len(h) THEN h[i + 1].id ELSE FallbackBase,
     img |-> image.img, x |-> image.x, y |-> image.y,
     width |-> image.width, height |-> image.height]

(* variant: the cursor is set from the array before the append *)
UpdateHistoryStaleIndex(h, newPrompt, newImageDataUrl, uuid) ==
    [history |-> Append(h, [id |-> uuid,
                            imageDataUrl |-> newImageDataUrl,
                            prompt |-> newPrompt]),
     historyIndex |-> Len(h) - 1]

(* updateHistory, called with the history array of the render it closes   *)
(* over; uuid stands for crypto.randomUUID()                              *)
UpdateHistory(h, newPrompt, newImageDataUrl, uuid) ==
    LET newHistoryState == [id |-> uuid,
                            imageDataUrl |-> newImageDataUrl,
                            prompt |-> newPrompt]
        newHistory == Append(h, newHistoryState)
    IN  [history |-> newHistory, historyIndex |-> Len(newHistory) - 1]

(* variant: the early return on a missing overlay is left out *)
FlattenImageNoGuard(h, i, image, by) ==
    SetToBag({[kind |-> "flatten", h |-> h, i |-> i, ov |-> image,
               by |-> by]})

(* variant: the call does nothing *)
FlattenImageNever(h, i, image, by) == EmptyBag

(* flattenImage called in a render with (h, i, image): the baseImage.onload *)
(* callbacks it leaves pending, none when no overlay is pending;            *)
(* by: the handler that called it and the index that handler moved to       *)
FlattenImage(h, i, image, by) ==
    IF image = NoImage THEN EmptyBag
    ELSE SetToBag({[kind |-> "flatten", h |-> h, i |-> i, ov |-> image,
                    by |-> by]})

(* variants: the range test is left out; undo returns to the first entry *)
UndoIndexNoGuard(h, i) == i - 1
UndoIndexToFirst(h, i) == IF i > 0 THEN 0 ELSE i
RedoIndexNoGuard(h, i) == i + 1

(* handleUndo / handleRedo: the index they move to *)
UndoIndex(h, i) == IF i > 0 THEN i - 1 ELSE i
RedoIndex(h, i) == IF i < Len(h) - 1 THEN i + 1 ELSE i

---------------------------------------------------------------------------
(* Pending callbacks *)

TasksOf(kinds) == {t \in BagToSet(tasks) : t.kind \in kinds}

RECURSIVE SumCopies(_, _)
SumCopies(B, S) ==
    IF S = {} THEN 0
    ELSE LET t == CHOOSE u \in S : TRUE
         IN  CopiesIn(t, B) + SumCopies(B, S \ {t})

CountOf(B, kinds) == SumCopies(B, {t \in BagToSet(B) : t.kind \in kinds})

(* snapshots that what is pending will still commit *)
PendingCommits ==
    CountOf(tasks, {"flatten", "generate", "genload"})
        + (IF isDrawing THEN 1 ELSE 0)

(* the bound leaves room for k more commits, uploads or requests *)
Room(k) == nextId + PendingCommits + nUploads + nSubmits + k <= MaxWork

Remove(t) == tasks (-) SetToBag({t})

By(op, to) == [op |-> op, to |-> to]

---------------------------------------------------------------------------
(* Initial state: the component is mounted and the setTimeout of the mount *)
(* effect has seeded the history with the blank canvas.                    *)

Init ==
    /\ history = <<[id |-> 1, imageDataUrl |-> WhiteRaster,
                    prompt |-> "Initial canvas"]>>
    /\ historyIndex = 0
    /\ uploadedImage = NoImage
    /\ interactionState = NoInteraction
    /\ isDrawing = FALSE
    /\ isLoading = FALSE
    /\ prompt = ""
    /\ showErrorModal = FALSE
    /\ errorMessage = ""
    /\ tasks = EmptyBag
    /\ nextId = 1
    /\ nUploads = 0
    /\ nSubmits = 0

---------------------------------------------------------------------------
(* Pointer handlers *)

(* startDrawing: flattenImage(), beginPath, setIsDrawing(true) *)
StartDrawing ==
    /\ tasks' = tasks (+) FlattenImage(history, historyIndex, uploadedImage,
                                       By("stroke", historyIndex))
    /\ isDrawing' = TRUE
    /\ UNCHANGED <<history, historyIndex, uploadedImage, interactionState,
                   nextId>>

(* variant of DownTarget that tests the overlay rectangle before the      *)
(* corner handles                                                         *)
DownTargetRectFirst(image, cx, cy) ==
    IF image = NoImage THEN "stroke"
    ELSE IF InRect(cx, cy, image) THEN "drag"
    ELSE IF HitHandle(image, cx, cy) # "none" THEN "resize"
    ELSE "stroke"

(* what handleCanvasMouseDown starts at point (cx, cy) *)
DownTarget(image, cx, cy) ==
    IF image = NoImage THEN "stroke"
    ELSE IF HitHandle(image, cx, cy) # "none" THEN "resize"
    ELSE IF InRect(cx, cy, image) THEN "drag"
    ELSE "stroke"

HandleCanvasMouseDown(p) ==
    LET cx == R(p[1])
        cy == R(p[2])
        target == DownTarget(uploadedImage, cx, cy)
    IN  /\ target = "stroke" =>
              Room((IF uploadedImage = NoImage THEN 0 ELSE 1)
                   + (IF isDrawing THEN 0 ELSE 1))
        /\ CASE target = "resize" ->
                  /\ interactionState' =
                        [type |-> "resize",
                         handle |-> HitHandle(uploadedImage, cx, cy),
                         startX |-> cx, startY |-> cy,
                         initialX |-> uploadedImage.x,
                         initialY |-> uploadedImage.y,
                         initialWidth |-> uploadedImage.width,
                         initialHeight |-> uploadedImage.height]
                  /\ UNCHANGED <<history, historyIndex, uploadedImage,
                                 isDrawing, tasks, nextId>>
             [] target = "drag" ->
                  /\ interactionState' =
                        [type |-> "drag", handle |-> "none",
                         startX |-> cx, startY |-> cy,
                         initialX |-> uploadedImage.x,
                         initialY |-> uploadedImage.y,
                         initialWidth |-> R(0),
                         initialHeight |-> R(0)]
                  /\ UNCHANGED <<history, historyIndex, uploadedImage,
                                 isDrawing, tasks, nextId>>
             [] OTHER -> StartDrawing
        /\ UNCHANGED <<isLoading, prompt, showErrorModal, errorMessage,
                       nUploads, nSubmits>>

(* handleCanvasMouseMove: drag or resize the overlay; otherwise draw(e),  *)
(* which only paints on the live canvas                                   *)
HandleCanvasMouseMove(p) ==
    LET cx == R(p[1])
        cy == R(p[2])
    IN  /\ IF interactionState # NoInteraction /\ uploadedImage # NoImage
           THEN uploadedImage' =
                    IF interactionState.type = "drag"
                    THEN DragMove(uploadedImage, interactionState, cx, cy)
                    ELSE ResizeMove(uploadedImage, interactionState, cx, cy)
           ELSE UNCHANGED uploadedImage
        /\ UNCHANGED <<history, historyIndex, interactionState, isDrawing,
                       isLoading, prompt, showErrorModal, errorMessage,
                       tasks, nextId, nUploads, nSubmits>>

(* handleCanvasMouseUp (also onMouseLeave, onTouchEnd): end the overlay    *)
(* gesture, otherwise stopDrawing                                          *)
HandleCanvasMouseUp ==
    /\ IF interactionState # NoInteraction
       THEN /\ interactionState' = NoInteraction
            /\ UNCHANGED <<history, historyIndex, isDrawing, nextId>>
       ELSE IF ~isDrawing
       THEN UNCHANGED <<history, historyIndex, interactionState, isDrawing,
                        nextId>>
       ELSE LET u == UpdateHistory(history, "Drawing", CanvasRaster,
                                   nextId + 1)
            IN  /\ isDrawing' = FALSE
                /\ history' = u.history
                /\ historyIndex' = u.historyIndex
                /\ nextId' = nextId + 1
                /\ UNCHANGED interactionState
    /\ UNCHANGED <<uploadedImage, isLoading, prompt, showErrorModal,
                   errorMessage, tasks, nUploads, nSubmits>>

---------------------------------------------------------------------------
(* Overlay: upload, decode, flatten *)

(* processImageFile (file input, paste, drop): flattenImage(), then read   *)
(* and decode the file; reader.onload and img.onload are one callback      *)
ProcessImageFile(size) ==
    /\ Room(1 + (IF uploadedImage = NoImage THEN 0 ELSE 1))
    /\ nUploads' = nUploads + 1
    /\ tasks' = tasks
                (+) FlattenImage(history, historyIndex, uploadedImage,
                                 By("upload", historyIndex))
                (+) SetToBag({[kind |-> "decode", file |-> nUploads + 1,
                               size |-> size]})
    /\ UNCHANGED <<history, historyIndex, uploadedImage, interactionState,
                   isDrawing, isLoading, prompt, showErrorModal,
                   errorMessage, nextId, nSubmits>>

(* img.onload of processImageFile: setUploadedImage(Place) *)
DecodeLoad(t) ==
    /\ t.kind = "decode"
    /\ uploadedImage' = Place(t.file, t.size[1], t.size[2])
    /\ tasks' = Remove(t)
    /\ UNCHANGED <<history, historyIndex, interactionState, isDrawing,
                   isLoading, prompt, showErrorModal, errorMessage, nextId,
                   nUploads, nSubmits>>

(* the file cannot be read or decoded: no onerror handler is installed *)
DecodeError(t) ==
    /\ t.kind = "decode"
    /\ tasks' = Remove(t)
    /\ UNCHANGED <<history, historyIndex, uploadedImage, interactionState,
                   isDrawing, isLoading, prompt, showErrorModal,
                   errorMessage, nextId, nUploads, nSubmits>>

(* the "Place image on canvas" button: onClick={flattenImage} *)
PlaceImageClick ==
    /\ Room(IF uploadedImage = NoImage THEN 0 ELSE 1)
    /\ tasks' = tasks (+) FlattenImage(history, historyIndex, uploadedImage,
                                       By("place", historyIndex))
    /\ UNCHANGED <<history, historyIndex, uploadedImage, interactionState,
                   isDrawing, isLoading, prompt, showErrorModal,
                   errorMessage, nextId, nUploads, nSubmits>>

(* baseImage.onload of flattenImage: draw base and overlay as captured,   *)
(* updateHistory('Image placed', ...) of the capturing render,            *)
(* setUploadedImage(null)                                                 *)
FlattenLoad(t) ==
    /\ t.kind = "flatten"
    /\ LET u == UpdateHistory(t.h, "Image placed",
                              FlatRaster(t.h, t.i, t.ov), nextId + 1)
       IN  /\ history' = u.history
           /\ historyIndex' = u.historyIndex
    /\ nextId' = nextId + 1
    /\ uploadedImage' = NoImage
    /\ tasks' = Remove(t)
    /\ UNCHANGED <<interactionState, isDrawing, isLoading, prompt,
                   showErrorModal, errorMessage, nUploads, nSubmits>>

---------------------------------------------------------------------------
(* History handlers *)

(* loadCanvasState called in a render with (h, i, image):                  *)
(* setUploadedImage(null), flattenImage() of that same render; the image   *)
(* it loads is only painted on the live canvas                             *)
LoadCanvasState(h, i, image, by) == FlattenImage(h, i, image, by)

(* the pending callbacks a handler of the shape                            *)
(*   flattenImage(); if (moves) { setHistoryIndex; loadCanvasState }       *)
(* adds                                                                    *)
MoveTasks(moves, by) ==
    FlattenImage(history, historyIndex, uploadedImage, by)
    (+) (IF moves
         THEN LoadCanvasState(history, historyIndex, uploadedImage, by)
         ELSE EmptyBag)

MoveCost(moves) ==
    IF uploadedImage = NoImage THEN 0 ELSE IF moves THEN 2 ELSE 1

HandleUndo ==
    LET moves == historyIndex > 0
    IN  /\ Room(MoveCost(moves))
        /\ tasks' = tasks (+) MoveTasks(moves,
                                        By("undo", UndoIndex(history,
                                                             historyIndex)))
        /\ historyIndex' = UndoIndex(history, historyIndex)
        /\ uploadedImage' = IF moves THEN NoImage ELSE uploadedImage
        /\ UNCHANGED <<history, interactionState, isDrawing, isLoading,
                       prompt, showErrorModal, errorMessage, nextId,
                       nUploads, nSubmits>>

HandleRedo ==
    LET moves == historyIndex < Len(history) - 1
    IN  /\ Room(MoveCost(moves))
        /\ tasks' = tasks (+) MoveTasks(moves,
                                        By("redo", RedoIndex(history,
                                                             historyIndex)))
        /\ historyIndex' = RedoIndex(history, historyIndex)
        /\ uploadedImage' = IF moves THEN NoImage ELSE uploadedImage
        /\ UNCHANGED <<history, interactionState, isDrawing, isLoading,
                       prompt, showErrorModal, errorMessage, nextId,
                       nUploads, nSubmits>>

(* handleRevertToHistory(index), index one of the entries that show the   *)
(* "Revert to this version" button (historyIndex !== index)                *)
HandleRevertToHistory(index) ==
    /\ index \in 0..(Len(history) - 1)
    /\ index # historyIndex
    /\ Room(MoveCost(TRUE))
    /\ tasks' = tasks (+) MoveTasks(TRUE, By("revert", index))
    /\ historyIndex' = index
    /\ uploadedImage' = NoImage
    /\ UNCHANGED <<history, interactionState, isDrawing, isLoading, prompt,
                   showErrorModal, errorMessage, nextId, nUploads, nSubmits>>

(* clearCanvas: setUploadedImage(null), fill white, updateHistory *)
ClearCanvas ==
    /\ Room(1)
    /\ LET u == UpdateHistory(history, "Canvas cleared", WhiteRaster,
                              nextId + 1)
       IN  /\ history' = u.history
           /\ historyIndex' = u.historyIndex
    /\ nextId' = nextId + 1
    /\ uploadedImage' = NoImage
    /\ UNCHANGED <<interactionState, isDrawing, isLoading, prompt,
                   showErrorModal, errorMessage, tasks, nUploads, nSubmits>>

(* handleDownload: composes base and overlay on a temporary canvas and     *)
(* saves it; no state of the component is written                          *)
HandleDownload ==
    /\ UNCHANGED <<history, historyIndex, uploadedImage, interactionState,
                   isDrawing, isLoading, prompt, showErrorModal,
                   errorMessage, tasks, nextId, nUploads, nSubmits>>

---------------------------------------------------------------------------
(* Generation *)

(* the prompt input's onChange *)
SetPrompt(text) ==
    /\ prompt # text
    /\ prompt' = text
    /\ UNCHANGED <<history, historyIndex, uploadedImage, interactionState,
                   isDrawing, isLoading, showErrorModal, errorMessage, tasks,
                   nextId, nUploads, nSubmits>>

(* handleSubmit up to its await: flattenImage(), setIsLoading(true), the   *)
(* request is sent.  The form submits only with a non-empty prompt         *)
(* (required) and an enabled button (disabled={isLoading}); model is the   *)
(* value of the model select read at this point.                           *)
HandleSubmit(model) ==
    /\ ~isLoading
    /\ prompt # ""
    /\ Room(2 + (IF uploadedImage = NoImage THEN 0 ELSE 1))
    /\ nSubmits' = nSubmits + 1
    /\ isLoading' = TRUE
    /\ tasks' = tasks
                (+) FlattenImage(history, historyIndex, uploadedImage,
                                 By("submit", historyIndex))
                (+) SetToBag({[kind |-> "generate", req |-> nSubmits + 1,
                               model |-> model, prompt |-> prompt,
                               h |-> history]})
    /\ UNCHANGED <<history, historyIndex, uploadedImage, interactionState,
                   isDrawing, prompt, showErrorModal, errorMessage, nextId,
                   nUploads>>

(* the awaited call returns an image: updateCanvasWithImage(imageUrl,      *)
(* prompt) starts loading it; finally setIsLoading(false)                  *)
GenerateImage(t) ==
    /\ t.kind = "generate"
    /\ t.model \in {"edit", "imagen"}
    /\ tasks' = Remove(t)
                (+) SetToBag({[kind |-> "genload", req |-> t.req,
                               prompt |-> t.prompt, h |-> t.h]})
    /\ isLoading' = FALSE
    /\ UNCHANGED <<history, historyIndex, uploadedImage, interactionState,
                   isDrawing, prompt, showErrorModal, errorMessage, nextId,
                   nUploads, nSubmits>>

(* the edit models answer without an image part: alert, nothing stored *)
GenerateNoImage(t) ==
    /\ t.kind = "generate"
    /\ t.model = "edit"
    /\ tasks' = Remove(t)
    /\ isLoading' = FALSE
    /\ UNCHANGED <<history, historyIndex, uploadedImage, interactionState,
                   isDrawing, prompt, showErrorModal, errorMessage, nextId,
                   nUploads, nSubmits>>

(* the describe model answers: updateHistory(description, toDataURL) of   *)
(* the submitting render, setPrompt('')                                    *)
GenerateDescription(t) ==
    /\ t.kind = "generate"
    /\ t.model = "describe"
    /\ LET u == UpdateHistory(t.h, "description", CanvasRaster, nextId + 1)
       IN  /\ history' = u.history
           /\ historyIndex' = u.historyIndex
    /\ nextId' = nextId + 1
    /\ prompt' = ""
    /\ tasks' = Remove(t)
    /\ isLoading' = FALSE
    /\ UNCHANGED <<uploadedImage, interactionState, isDrawing,
                   showErrorModal, errorMessage, nUploads, nSubmits>>

(* variant: no finally block *)
GenerateErrorKeepsLoading(t) ==
    /\ t.kind = "generate"
    /\ errorMessage' = "error"
    /\ showErrorModal' = TRUE
    /\ tasks' = Remove(t)
    /\ UNCHANGED <<history, historyIndex, uploadedImage, interactionState,
                   isDrawing, isLoading, prompt, nextId, nUploads, nSubmits>>

(* the awaited call throws: catch sets the error, finally clears loading *)
GenerateError(t) ==
    /\ t.kind = "generate"
    /\ errorMessage' = "error"
    /\ showErrorModal' = TRUE
    /\ tasks' = Remove(t)
    /\ isLoading' = FALSE
    /\ UNCHANGED <<history, historyIndex, uploadedImage, interactionState,
                   isDrawing, prompt, nextId, nUploads, nSubmits>>

(* variant: the label is the prompt field when the image has loaded *)
GeneratedImageLoadFieldPrompt(t) ==
    /\ t.kind = "genload"
    /\ LET u == UpdateHistory(t.h, prompt, GenRaster(t.req), nextId + 1)
       IN  /\ history' = u.history
           /\ historyIndex' = u.historyIndex
    /\ nextId' = nextId + 1
    /\ tasks' = Remove(t)
    /\ UNCHANGED <<uploadedImage, interactionState, isDrawing, isLoading,
                   prompt, showErrorModal, errorMessage, nUploads, nSubmits>>

(* img.onload of updateCanvasWithImage: draw the image, updateHistory of   *)
(* the submitting render with promptToSave                                 *)
GeneratedImageLoad(t) ==
    /\ t.kind = "genload"
    /\ LET u == UpdateHistory(t.h, t.prompt, GenRaster(t.req), nextId + 1)
       IN  /\ history' = u.history
           /\ historyIndex' = u.historyIndex
    /\ nextId' = nextId + 1
    /\ tasks' = Remove(t)
    /\ UNCHANGED <<uploadedImage, interactionState, isDrawing, isLoading,
                   prompt, showErrorModal, errorMessage, nUploads, nSubmits>>

closeErrorModal ==
    /\ showErrorModal
    /\ showErrorModal' = FALSE
    /\ UNCHANGED <<history, historyIndex, uploadedImage, interactionState,
                   isDrawing, isLoading, prompt, errorMessage, tasks, nextId,
                   nUploads, nSubmits>>

---------------------------------------------------------------------------
Next ==
    \/ \E p \in DownPoints : HandleCanvasMouseDown(p)
    \/ \E p \in MovePoints : HandleCanvasMouseMove(p)
    \/ HandleCanvasMouseUp
    \/ \E size \in FileSizes : ProcessImageFile(size)
    \/ \E t \in BagToSet(tasks) : DecodeLoad(t)
    \/ \E t \in BagToSet(tasks) : DecodeError(t)
    \/ PlaceImageClick
    \/ \E t \in BagToSet(tasks) : FlattenLoad(t)
    \/ HandleUndo
    \/ HandleRedo
    \/ \E index \in 0..(Len(history) - 1) : HandleRevertToHistory(index)
    \/ ClearCanvas
    \/ HandleDownload
    \/ \E text \in Prompts : SetPrompt(text)
    \/ \E model \in Models : HandleSubmit(model)
    \/ \E t \in BagToSet(tasks) : GenerateImage(t)
    \/ \E t \in BagToSet(tasks) : GenerateNoImage(t)
    \/ \E t \in BagToSet(tasks) : GenerateDescription(t)
    \/ \E t \in BagToSet(tasks) : GenerateError(t)
    \/ \E t \in BagToSet(tasks) : GeneratedImageLoad(t)
    \/ closeErrorModal

Spec == Init /\ [][Next]_vars

---------------------------------------------------------------------------
(* The overlay gestures alone, on files of several native sizes and with   *)
(* the pointer pressed on the overlay where it is and moved to positions   *)
(* inside and outside the canvas.                                          *)

(* native sizes: wider than the limit, taller than the limit, small, and   *)
(* over both limits                                                        *)
GeoFileSizes ==
    {<<800, 400>>, <<300, 2000>>, <<100, 50>>, <<2000, 1500>>, <<10, 400>>}

(* getCoordinates on pointer move / touch move *)
GeoMovePoints == {<<-50, -50>>, <<480, 270>>, <<1100, 700>>}

Floor(a) == a[1] \div a[2]

(* getCoordinates on pointer down: a pixel in each corner hit-box of the   *)
(* overlay and one inside the overlay away from the corners                *)
GeoDownPoints(image) ==
    LET l == Floor(image.x)
        r == Floor(RAdd(image.x, image.width))
        t == Floor(image.y)
        b == Floor(RAdd(image.y, image.height))
    IN  {<<l, t>>, <<r, t>>, <<l, b>>, <<r, b>>, <<l + 10, t + 1>>}

(* one file is handed in *)
GeoUpload(size) ==
    /\ nUploads = 0
    /\ ProcessImageFile(size)

(* the pointer goes down on the overlay *)
GeoDown(p) ==
    /\ uploadedImage # NoImage
    /\ DownTarget(uploadedImage, R(p[1]), R(p[2])) # "stroke"
    /\ HandleCanvasMouseDown(p)

GeoNext ==
    \/ \E size \in GeoFileSizes : GeoUpload(size)
    \/ \E t \in BagToSet(tasks) : DecodeLoad(t)
    \/ \E p \in GeoDownPoints(uploadedImage) : GeoDown(p)
    \/ \E p \in GeoMovePoints : HandleCanvasMouseMove(p)
    \/ HandleCanvasMouseUp

GeoSpec == Init /\ [][GeoNext]_vars

---------------------------------------------------------------------------
(* Properties *)

Last(h) == h[Len(h)]
Committed == nextId' = nextId + 1       \* this step called updateHistory
FlattenTasks(B) == {t \in BagToSet(B) : t.kind = "flatten"}

(* C1: once the blank snapshot is seeded, the history is never empty and  *)
(* the cursor is a valid index of it, in every reachable state.           *)
C1_CursorInRange ==
    /\ Len(history) >= 1
    /\ 0 <= historyIndex
    /\ historyIndex <= Len(history) - 1

(* several snapshots were committed and the cursor was moved back *)
C1_Witness ==
    /\ Len(history) >= 3
    /\ historyIndex = 0
    /\ uploadedImage # NoImage

(* C2: a commit made while the cursor is not on the last entry drops the  *)
(* entries after the cursor: the new length is cursor + 2 and the entries *)
(* up to the cursor are kept.                                             *)
C2_CommitTruncates ==
    [][(Committed /\ historyIndex < Len(history) - 1)
          => /\ Len(history') = historyIndex + 2
             /\ \A k \in 1..(historyIndex + 1) : history'[k] = history[k]]_vars

(* C3: every commit leaves the cursor on the last entry, and that entry   *)
(* is the new snapshot with the caller's label and raster; the callbacks  *)
(* that commit can always run.                                            *)
C3_CommitSetsCursorOnNewSnapshot ==
    /\ [](\A t \in FlattenTasks(tasks) : ENABLED FlattenLoad(t))
    /\ [][/\ Committed =>
               /\ historyIndex' = Len(history') - 1
               /\ Last(history').id = nextId'
               /\ \A k \in 1..(Len(history') - 1) :
                      history'[k].id # nextId'
          /\ (Committed /\ HandleCanvasMouseUp) =>
               /\ Last(history').prompt = "Drawing"
               /\ Last(history').imageDataUrl = CanvasRaster
          /\ ClearCanvas =>
               /\ Last(history').prompt = "Canvas cleared"
               /\ Last(history').imageDataUrl = WhiteRaster
          /\ \A t \in BagToSet(tasks) :
               /\ FlattenLoad(t) =>
                    /\ Last(history').prompt = "Image placed"
                    /\ Last(history').imageDataUrl.kind = "flat"
                    /\ Last(history').imageDataUrl.img = t.ov.img
               /\ GeneratedImageLoad(t) =>
                    /\ Last(history').prompt = t.prompt
                    /\ Last(history').imageDataUrl = GenRaster(t.req)
               /\ GenerateDescription(t) =>
                    Last(history').prompt = "description"]_vars

(* a flattened overlay is the current snapshot, after an earlier commit *)
C3_Witness ==
    /\ Len(history) >= 3
    /\ historyIndex = Len(history) - 1
    /\ Last(history).prompt = "Image placed"

(* C4: with no overlay pending, Undo at cursor 0 and Redo at the last     *)
(* index change nothing; otherwise Undo moves the cursor down by one and  *)
(* Redo up by one, and neither changes the snapshot sequence.             *)
C4_UndoRedoStep ==
    [][uploadedImage = NoImage =>
          /\ HandleUndo =>
               /\ history' = history
               /\ historyIndex = 0 => UNCHANGED vars
               /\ historyIndex > 0 => historyIndex' = historyIndex - 1
          /\ HandleRedo =>
               /\ history' = history
               /\ historyIndex = Len(history) - 1 => UNCHANGED vars
               /\ historyIndex < Len(history) - 1 =>
                    historyIndex' = historyIndex + 1]_vars

(* the cursor is strictly inside a history of three: reached by Undo or   *)
(* Redo steps with no overlay ever uploaded                               *)
C4_Witness ==
    /\ Len(history) = 3
    /\ historyIndex = 1
    /\ nUploads = 0
    /\ nSubmits = 0

(* C5: from a cursor above 0, Undo followed at once by Redo gives back    *)
(* the same cursor, the same snapshot at it and the same sequence.        *)
C5_UndoThenRedo ==
    [][/\ (HandleUndo /\ historyIndex > 0) =>
            /\ history' = history
            /\ RedoIndex(history', historyIndex') = historyIndex
            /\ history'[RedoIndex(history', historyIndex') + 1].id
                   = history[historyIndex + 1].id
       /\ HandleRedo =>
            /\ history' = history
            /\ historyIndex' = RedoIndex(history, historyIndex)]_vars

(* Undo has moved the cursor off the last entry and Redo leads back *)
C5_Witness ==
    /\ Len(history) >= 2
    /\ historyIndex = Len(history) - 2
    /\ RedoIndex(history, historyIndex) = Len(history) - 1
    /\ tasks = EmptyBag

(* C6: Undo with an overlay pending flattens first and steps back after:  *)
(* when the last flatten callback of that Undo has run, no overlay is     *)
(* pending, one snapshot holds the overlay, and the cursor is one below   *)
(* it, on the snapshot that was current before the Undo.                  *)
C6_UndoFlattensThenStepsBack ==
    [][\A t \in FlattenTasks(tasks) :
          (/\ FlattenLoad(t)
           /\ t.by.op = "undo"
           /\ t.i > 0
           /\ \A u \in FlattenTasks(tasks') : u.by.op # "undo")
          => /\ uploadedImage' = NoImage
             /\ Cardinality({k \in 1..Len(history') :
                    /\ history'[k].imageDataUrl.kind = "flat"
                    /\ history'[k].imageDataUrl.img = t.ov.img}) = 1
             /\ historyIndex' = Len(history') - 2
             /\ history'[historyIndex' + 1] = t.h[t.i + 1]]_vars

(* C7: after RevertTo(i) and its callbacks the cursor is i and no overlay *)
(* is pending; a pending overlay has been committed; with no overlay      *)
(* pending the snapshot sequence is unchanged.                            *)
C7_RevertSetsCursor ==
    [][/\ \A i \in 0..(Len(history) - 1) :
            (HandleRevertToHistory(i) /\ uploadedImage = NoImage)
            => /\ historyIndex' = i
               /\ history' = history
               /\ uploadedImage' = NoImage
               /\ tasks' = tasks
       /\ \A t \in FlattenTasks(tasks) :
            (/\ FlattenLoad(t)
             /\ t.by.op = "revert"
             /\ \A u \in FlattenTasks(tasks') : u.by.op # "revert")
            => /\ historyIndex' = t.by.to
               /\ uploadedImage' = NoImage
               /\ \E k \in 1..Len(history') :
                      /\ history'[k].imageDataUrl.kind = "flat"
                      /\ history'[k].imageDataUrl.img = t.ov.img]_vars

(* C8: flatten invoked with no overlay pending changes nothing and leaves *)
(* no callback pending: the place handler is a no-op, and no handler or   *)
(* callback running without an overlay adds a flatten callback.           *)
C8_FlattenWithoutOverlay ==
    [][uploadedImage = NoImage =>
          /\ PlaceImageClick => UNCHANGED vars
          /\ CountOf(tasks', {"flatten"}) <= CountOf(tasks, {"flatten"})
          /\ (HandleUndo \/ HandleRedo) =>
                /\ history' = history
                /\ uploadedImage' = NoImage
                /\ tasks' = tasks]_vars

(* Undo ran its flattenImage() calls with no overlay ever uploaded: the   *)
(* cursor moved and nothing is pending                                    *)
C8_Witness ==
    /\ nUploads = 0
    /\ Len(history) = 2
    /\ historyIndex = 0
    /\ tasks = EmptyBag
    /\ ~isDrawing

(* C9: a pending overlay is committed once: the flatten commits a new    *)
(* snapshot only for an overlay no snapshot holds yet, its raster is the  *)
(* snapshot at the cursor (of the trigger or of the commit) with the      *)
(* overlay drawn at the position and size it has when the commit happens, *)
(* and no overlay is left pending, however and however often the flatten  *)
(* was triggered.                                                         *)
C9_FlattenCommitsCurrentOverlay ==
    [][\A t \in FlattenTasks(tasks) :
          FlattenLoad(t)
          => LET flat == Last(history').imageDataUrl
                 now  == IF uploadedImage.img = t.ov.img
                         THEN uploadedImage ELSE t.ov
             IN  /\ \A k \in 1..Len(history) :
                        \/ history[k].imageDataUrl.kind # "flat"
                        \/ history[k].imageDataUrl.img # t.ov.img
                 /\ \/ flat = FlatRaster(history, historyIndex, now)
                    \/ flat = FlatRaster(t.h, t.i, now)
                 /\ uploadedImage' = NoImage]_vars

(* the steps of C10: a stroke started, a file handed in, a request sent *)
StrokeStarted ==
    \E p \in DownPoints :
        /\ HandleCanvasMouseDown(p)
        /\ DownTarget(uploadedImage, R(p[1]), R(p[2])) = "stroke"
FileHandedIn == \E size \in FileSizes : ProcessImageFile(size)
Reverted == \E i \in 0..(Len(history) - 1) : HandleRevertToHistory(i)
Submitted == \E model \in Models : HandleSubmit(model)

(* a flatten callback that has captured the present overlay, history and *)
(* cursor is added by the step                                            *)
FlattenScheduled ==
    \E t \in FlattenTasks(tasks') :
        /\ t.ov = uploadedImage
        /\ t.h = history
        /\ t.i = historyIndex
        /\ CopiesIn(t, tasks') > CopiesIn(t, tasks)

---------------------------------------------------------------------------
(* Overlay geometry *)

InCanvas(rect) ==
    /\ RLe(R(0), rect.x)
    /\ RLe(R(0), rect.y)
    /\ RLe(RAdd(rect.x, rect.width), R(CanvasWidth))
    /\ RLe(RAdd(rect.y, rect.height), R(CanvasHeight))

Resizing == uploadedImage # NoImage /\ interactionState.type = "resize"

(* C11: the overlay lies inside the canvas after every drag and resize    *)
(* move, and a resize move whose candidate rectangle leaves the canvas    *)
(* keeps the geometry as it was.                                          *)
C11_OverlayInsideCanvas ==
    /\ [](uploadedImage # NoImage => InCanvas(uploadedImage))
    /\ [][\A p \in GeoMovePoints :
            (/\ HandleCanvasMouseMove(p)
             /\ Resizing
             /\ ~InCanvas(ResizeCandidate(uploadedImage, interactionState,
                                          R(p[1]), R(p[2]))))
            => uploadedImage' = uploadedImage]_vars

(* a resized overlay has been dragged into the top-left corner by a       *)
(* pointer outside the canvas                                             *)
C11_Witness ==
    /\ uploadedImage.img = 1
    /\ uploadedImage.aspectRatio = R(2)
    /\ uploadedImage.width \notin {R(768), R(100)}
    /\ uploadedImage.x = R(0)
    /\ uploadedImage.y = R(0)
    /\ interactionState.type = "drag"

(* C12: in every state the overlay's width : height is the native         *)
(* width : height of its file, before and after every resize move.        *)
C12_AspectRatioKept ==
    uploadedImage # NoImage =>
        /\ RDiv(uploadedImage.width, uploadedImage.height)
               = uploadedImage.aspectRatio
        /\ \E size \in GeoFileSizes :
               /\ uploadedImage.aspectRatio = RDiv(R(size[1]), R(size[2]))
               /\ RMul(uploadedImage.width, R(size[2]))
                      = RMul(uploadedImage.height, R(size[1]))

(* a resize move has been accepted: the width differs from the width at   *)
(* pointer down                                                           *)
C12_Witness ==
    /\ Resizing
    /\ interactionState.handle = "topRight"
    /\ uploadedImage.width # interactionState.initialWidth

(* C13: the overlay Place() installs is at most 80% of the canvas in each *)
(* direction, has the native aspect ratio and is centered; 800x400 gives  *)
(* width <= 768, height <= 432 and aspect ratio 2.                        *)
C13_PlaceFitsAndCenters ==
    [][\A t \in BagToSet(tasks) :
          DecodeLoad(t)
          => LET o == uploadedImage'
                 nw == R(t.size[1])
                 nh == R(t.size[2])
             IN  /\ RLe(o.width, RDiv(R(CanvasWidth * 80), R(100)))
                 /\ RLe(o.height, RDiv(R(CanvasHeight * 80), R(100)))
                 /\ RMul(o.width, nh) = RMul(o.height, nw)
                 /\ o.x = RDiv(RSub(R(CanvasWidth), o.width), R(2))
                 /\ o.y = RDiv(RSub(R(CanvasHeight), o.height), R(2))
                 /\ RLt(R(0), o.width)
                 /\ t.size = <<800, 400>>
                       => /\ RLe(o.width, R(768))
                          /\ RLe(o.height, R(432))
                          /\ RDiv(o.width, o.height) = R(2)]_vars

(* a 2000x1500 file has been placed: both limits applied *)
C13_Witness ==
    /\ uploadedImage.aspectRatio = RDiv(R(2000), R(1500))
    /\ uploadedImage.width = R(576)
    /\ uploadedImage.height = R(432)
    /\ interactionState = NoInteraction

---------------------------------------------------------------------------
(* Pointer up *)

(* the controller's mode, in the order handleCanvasMouseUp tests it *)
Stroking == isDrawing /\ interactionState = NoInteraction
Idle == ~isDrawing /\ interactionState = NoInteraction

(* C14: a pointer up or leave commits exactly when a stroke was open: it  *)
(* then appends one snapshot labeled "Drawing" and the controller is idle *)
(* (a leave after it changes nothing); ending a drag or resize returns    *)
(* the controller to Idle and leaves history, cursor and overlay as they  *)
(* were; a pointer up in Idle changes nothing.                            *)
C14_PointerUpCommitsOnlyStroke ==
    [][HandleCanvasMouseUp =>
          /\ Committed <=> Stroking
          /\ Stroking =>
                /\ Len(history') = Len(history) + 1
                /\ SubSeq(history', 1, Len(history)) = history
                /\ Last(history').prompt = "Drawing"
                /\ historyIndex' = Len(history') - 1
                /\ uploadedImage' = uploadedImage
                /\ Idle'
          /\ interactionState # NoInteraction =>
                /\ Idle'
                /\ history' = history
                /\ historyIndex' = historyIndex
                /\ uploadedImage' = uploadedImage
          /\ Idle => UNCHANGED vars]_vars

---------------------------------------------------------------------------
(* Generation *)

TasksOfKind(B, kind) == {t \in BagToSet(B) : t.kind = kind}

(* C15: a request that succeeds with an image commits one snapshot,       *)
(* labeled with the prompt the request was submitted with, and the cursor *)
(* moves to it: the request carries the prompt field of the submit, the   *)
(* image load carries the request's prompt, and the load commits one      *)
(* snapshot of that request under that label.                             *)
C15_GeneratedSnapshotLabel ==
    [][/\ \A model \in Models :
            HandleSubmit(model)
            => \E t \in TasksOfKind(tasks', "generate") :
                  /\ t.req = nSubmits'
                  /\ t.prompt = prompt
                  /\ TasksOfKind(tasks', "generate") = {t}
       /\ \A t \in TasksOfKind(tasks, "generate") :
            GenerateImage(t)
            => \E l \in TasksOfKind(tasks', "genload") :
                  /\ l.req = t.req
                  /\ l.prompt = t.prompt
                  /\ CopiesIn(l, tasks') = 1
                  /\ \A o \in TasksOfKind(tasks', "genload") :
                        o.req = t.req => o = l
       /\ \A t \in TasksOfKind(tasks, "genload") :
            GeneratedImageLoad(t)
            => /\ Last(history').prompt = t.prompt
               /\ Last(history').imageDataUrl = GenRaster(t.req)
               /\ historyIndex' = Len(history') - 1
               /\ \A k \in 1..Len(history) :
                     history[k].id # Last(history').id
               /\ Cardinality({k \in 1..Len(history') :
                     history'[k].imageDataUrl = GenRaster(t.req)}) = 1
               /\ \A o \in TasksOfKind(tasks', "genload") :
                     o.req # t.req]_vars

(* the generated image of a request submitted with "p" is committed while *)
(* the prompt field reads "q"                                             *)
C15_Witness ==
    /\ Last(history).prompt = "p"
    /\ Last(history).imageDataUrl.kind = "gen"
    /\ historyIndex = Len(history) - 1
    /\ prompt = "q"

(* a request is outstanding: sent and not answered, or answered with an  *)
(* image that has not been drawn yet                                     *)
Outstanding(B) == TasksOfKind(B, "generate") \cup TasksOfKind(B, "genload")

(* C16: the result of a request that is no longer the latest outstanding *)
(* one is ignored: the step that applies it changes neither history nor  *)
(* cursor.                                                               *)
C16_StaleResponseIgnored ==
    [][\A t \in Outstanding(tasks) :
          (/\ \/ GeneratedImageLoad(t)
              \/ GenerateDescription(t)
              \/ GenerateImage(t)
              \/ GenerateNoImage(t)
           /\ \E o \in Outstanding(tasks) : o.req > t.req)
          => /\ history' = history
             /\ historyIndex' = historyIndex]_vars

(* C17: a failed generation leaves history and cursor as they were, sets  *)
(* the error state (throw) and clears the loading flag; the loading flag  *)
(* is set exactly while a request is awaiting its answer.                 *)
C17_FailureKeepsHistory ==
    /\ [](isLoading <=> TasksOfKind(tasks, "generate") # {})
    /\ [][\A t \in TasksOfKind(tasks, "generate") :
            /\ GenerateError(t) =>
                  /\ history' = history
                  /\ historyIndex' = historyIndex
                  /\ uploadedImage' = uploadedImage
                  /\ showErrorModal'
                  /\ errorMessage' # ""
                  /\ ~isLoading'
            /\ GenerateNoImage(t) =>
                  /\ history' = history
                  /\ historyIndex' = historyIndex
                  /\ uploadedImage' = uploadedImage
                  /\ ~isLoading'
            /\ (GenerateImage(t) \/ GenerateDescription(t)) => ~isLoading'
       ]_vars

(* a request failed after a stroke had been committed: the error is shown, *)
(* nothing is loading, the history still ends with the stroke              *)
C17_Witness ==
    /\ showErrorModal
    /\ errorMessage # ""
    /\ ~isLoading
    /\ nSubmits = 1
    /\ Len(history) = 2
    /\ Last(history).prompt = "Drawing"
    /\ tasks = EmptyBag

---------------------------------------------------------------------------
(* Ordering of flatten, commits and callbacks *)

(* C18: a flatten triggered by another action is complete within that    *)
(* action: the action invoked with an overlay pending has the flattened  *)
(* snapshot in history when it returns, has cleared that overlay, and    *)
(* leaves no flatten callback pending for another event to run before.   *)
C18_FlattenSynchronous ==
    [][(/\ uploadedImage # NoImage
        /\ \/ StrokeStarted
           \/ FileHandedIn
           \/ HandleUndo
           \/ HandleRedo
           \/ Reverted
           \/ Submitted)
       => /\ Committed
          /\ \E k \in 1..Len(history') :
                history'[k].imageDataUrl
                    = FlatRaster(history, historyIndex, uploadedImage)
          /\ uploadedImage' = NoImage
          /\ FlattenTasks(tasks') = {}]_vars

(* C19: a commit keeps every snapshot at or before the cursor where it   *)
(* is, also when the committing callback was scheduled before other      *)
(* commits took place.                                                   *)
C19_CommitKeepsEarlierSnapshots ==
    [][Committed =>
          \A k \in 1..(historyIndex + 1) :
              /\ k <= Len(history')
              /\ history'[k] = history[k]]_vars

(* C20: the flatten that an upload triggered for the previous overlay    *)
(* commits that overlay and leaves the newly placed overlay pending,     *)
(* whichever of the two callbacks runs first.                            *)
C20_NewOverlaySurvivesFlatten ==
    [][/\ \A f \in FlattenTasks(tasks) :
            (/\ FlattenLoad(f)
             /\ f.by.op = "upload"
             /\ uploadedImage # NoImage
             /\ uploadedImage.img # f.ov.img)
            => /\ uploadedImage' = uploadedImage
               /\ \E k \in 1..Len(history') :
                     /\ history'[k].imageDataUrl.kind = "flat"
                     /\ history'[k].imageDataUrl.img = f.ov.img
       /\ \A t \in TasksOfKind(tasks, "decode") :
            DecodeLoad(t)
            => uploadedImage' = Place(t.file, t.size[1], t.size[2])]_vars

(* C21: when the last of the pending decodes has resolved, the overlay is *)
(* the image of the upload that was started last.                         *)
C21_LaterUploadWins ==
    [][\A t \in TasksOfKind(tasks, "decode") :
          (/\ DecodeLoad(t)
           /\ nUploads >= 2
           /\ TasksOfKind(tasks', "decode") = {})
          => uploadedImage'.img = nUploads]_vars

(* C22: a generated image that arrives while an overlay is pending has    *)
(* the overlay flattened into a snapshot of its own before it is          *)
(* committed, and leaves no overlay pending.                              *)
C22_GeneratedImageFlattensOverlay ==
    [][\A t \in TasksOfKind(tasks, "genload") :
          (/\ GeneratedImageLoad(t)
           /\ uploadedImage # NoImage
           /\ FlattenTasks(tasks) = {})
          => /\ uploadedImage' = NoImage
             /\ \E k \in 1..(Len(history') - 1) :
                   /\ history'[k].imageDataUrl.kind = "flat"
                   /\ history'[k].imageDataUrl.img = uploadedImage.img]_vars

(* C23: a pointer-down draws a stroke when no overlay is pending;         *)
(* otherwise it starts a resize recording a corner handle whose hit-box   *)
(* holds the point (inside or outside the overlay rectangle), else a drag *)
(* when the point is inside the overlay rectangle, else a stroke; and it  *)
(* never starts both a gesture and a stroke.                              *)
C23_PointerDownDispatch ==
    [][\A p \in DownPoints :
          HandleCanvasMouseDown(p) =>
              LET cx == R(p[1])
                  cy == R(p[2])
                  im == uploadedImage
                  half == R(HANDLE_SIZE \div 2)
                  right == RAdd(im.x, im.width)
                  bottom == RAdd(im.y, im.height)
                  near(hx, hy) ==
                      /\ RLe(RSub(hx, half), cx) /\ RLe(cx, RAdd(hx, half))
                      /\ RLe(RSub(hy, half), cy) /\ RLe(cy, RAdd(hy, half))
                  hit == {h \in {"topLeft", "topRight",
                                 "bottomLeft", "bottomRight"} :
                            CASE h = "topLeft" -> near(im.x, im.y)
                              [] h = "topRight" -> near(right, im.y)
                              [] h = "bottomLeft" -> near(im.x, bottom)
                              [] OTHER -> near(right, bottom)}
                  inside == /\ RLe(im.x, cx) /\ RLe(cx, right)
                            /\ RLe(im.y, cy) /\ RLe(cy, bottom)
                  noStroke == /\ isDrawing' = isDrawing
                              /\ tasks' = tasks
                              /\ uploadedImage' = uploadedImage
                  stroke == /\ isDrawing'
                            /\ interactionState' = interactionState
                  resize == /\ interactionState'.type = "resize"
                            /\ interactionState'.handle \in hit
                            /\ interactionState'.startX = cx
                            /\ interactionState'.startY = cy
                            /\ noStroke
                  drag == /\ interactionState'.type = "drag"
                          /\ interactionState'.startX = cx
                          /\ interactionState'.startY = cy
                          /\ noStroke
              IN  IF im = NoImage THEN stroke
                  ELSE IF hit # {} THEN resize
                  ELSE IF inside THEN drag
                  ELSE stroke]_vars

(* a resize was started from a point in the bottom-right hit-box that     *)
(* lies outside the overlay rectangle                                     *)
C23_Witness ==
    /\ uploadedImage # NoImage
    /\ interactionState.type = "resize"
    /\ interactionState.handle = "bottomRight"
    /\ interactionState.startX = R(866)
    /\ ~InRect(interactionState.startX, interactionState.startY,
               uploadedImage)

(* the corner of rectangle rect opposite to the named handle *)
OppositeCorner(rect, handle) ==
    LET right == RAdd(rect.x, rect.width)
        bottom == RAdd(rect.y, rect.height)
    IN  CASE handle = "bottomRight" -> <<rect.x, rect.y>>
          [] handle = "bottomLeft" -> <<right, rect.y>>
          [] handle = "topRight" -> <<rect.x, bottom>>
          [] OTHER -> <<right, bottom>>

(* the overlay rectangle recorded when the gesture started *)
GestureStartRect ==
    [x |-> interactionState.initialX, y |-> interactionState.initialY,
     width |-> interactionState.initialWidth,
     height |-> interactionState.initialHeight]

(* C24: after every accepted move of a resize, the corner opposite the    *)
(* dragged handle is where it was when the gesture started, also when the *)
(* width is held at its minimum.                                          *)
C24_OppositeCornerFixed ==
    [][\A p \in GeoMovePoints :
          (/\ Resizing
           /\ HandleCanvasMouseMove(p)
           /\ uploadedImage' # uploadedImage)
          => OppositeCorner(uploadedImage', interactionState.handle)
                = OppositeCorner(GestureStartRect,
                                 interactionState.handle)]_vars

(* what a move to 1000 px left of the pointer-down point makes of the     *)
(* overlay in the current state                                           *)
MovedLeft1000 ==
    ResizeMove(uploadedImage, interactionState,
               RSub(interactionState.startX, R(1000)),
               interactionState.startY)

(* C25 as stated: in every state of a bottomRight resize, a move with     *)
(* dx = -1000 sets the width to 2 x HANDLE_SIZE, whatever the overlay.    *)
C25_BottomRightAlwaysClamps ==
    (Resizing /\ interactionState.handle = "bottomRight")
    => MovedLeft1000.width = R(2 * HANDLE_SIZE)

(* C25: a pending overlay's width is positive in every state and at least *)
(* 2 x HANDLE_SIZE after every accepted resize move; a bottomRight move   *)
(* with dx = -1000 sets the width to 2 x HANDLE_SIZE when the rectangle   *)
(* of that width and the overlay's aspect ratio fits in the canvas at the *)
(* gesture-start position, and leaves the overlay as it is otherwise.     *)
C25_ResizeKeepsMinimumWidth ==
    /\ [](uploadedImage # NoImage => RLt(R(0), uploadedImage.width))
    /\ []((Resizing /\ interactionState.handle = "bottomRight")
          => LET minW == R(2 * HANDLE_SIZE)
                 rect == [x |-> interactionState.initialX,
                          y |-> interactionState.initialY,
                          width |-> minW,
                          height |-> RDiv(minW,
                                          uploadedImage.aspectRatio)]
             IN  IF InCanvas(rect)
                 THEN MovedLeft1000.width = minW
                 ELSE MovedLeft1000 = uploadedImage)
    /\ [][\A p \in GeoMovePoints :
             (/\ Resizing
              /\ HandleCanvasMouseMove(p)
              /\ uploadedImage' # uploadedImage)
             => RLe(R(2 * HANDLE_SIZE), uploadedImage'.width)]_vars

(* a bottomRight resize has brought the overlay to the minimum width *)
C25_Witness ==
    /\ Resizing
    /\ interactionState.handle = "bottomRight"
    /\ RLt(R(2 * HANDLE_SIZE), interactionState.initialWidth)
    /\ uploadedImage.width = R(2 * HANDLE_SIZE)

Dragging == uploadedImage # NoImage /\ interactionState.type = "drag"

(* v brought into the interval [0, hi] *)
ClampedTo(v, hi) ==
    IF RLt(v, R(0)) THEN R(0) ELSE IF RLt(hi, v) THEN hi ELSE v

(* C26: every move of a drag puts the overlay at its gesture-start        *)
(* position plus the pointer's displacement since pointer-down, clamped   *)
(* into the canvas, whatever moves came before, and leaves its width,     *)
(* height and image as they were.                                         *)
C26_DragFromGestureStart ==
    [][\A p \in GeoMovePoints :
          (Dragging /\ HandleCanvasMouseMove(p))
          => LET st == interactionState
                 toX == RAdd(st.initialX, RSub(R(p[1]), st.startX))
                 toY == RAdd(st.initialY, RSub(R(p[2]), st.startY))
                 maxX == RSub(R(CanvasWidth), uploadedImage.width)
                 maxY == RSub(R(CanvasHeight), uploadedImage.height)
             IN  /\ uploadedImage'.x = ClampedTo(toX, maxX)
                 /\ uploadedImage'.y = ClampedTo(toY, maxY)
                 /\ uploadedImage'.width = uploadedImage.width
                 /\ uploadedImage'.height = uploadedImage.height
                 /\ uploadedImage'.img = uploadedImage.img
                 /\ interactionState' = interactionState]_vars

(* a drag has moved the overlay to a position no clamp applies to *)
C26_Witness ==
    /\ Dragging
    /\ uploadedImage.x # interactionState.initialX
    /\ uploadedImage.y # interactionState.initialY
    /\ RLt(R(0), uploadedImage.x)
    /\ RLt(R(0), uploadedImage.y)
    /\ RLt(RAdd(uploadedImage.x, uploadedImage.width), R(CanvasWidth))
    /\ RLt(RAdd(uploadedImage.y, uploadedImage.height), R(CanvasHeight))

(* C27: when the decode of the latest upload fails, that upload has left  *)
(* nothing behind that changes history, cursor or overlay: no commit of   *)
(* the overlay that was pending when it started is waiting to run.        *)
C27_FailedUploadChangesNothing ==
    [][\A t \in TasksOfKind(tasks, "decode") :
          (/\ DecodeError(t)
           /\ t.file = nUploads
           /\ t.file >= 2)
          => \A f \in FlattenTasks(tasks) :
                 ~(f.by.op = "upload" /\ f.ov.img = t.file - 1)]_vars

(* C28: in every reachable state the controller is in one mode only: a    *)
(* stroke (isDrawing) and an overlay gesture (interactionState set) are   *)
(* never open at the same time.                                           *)
C28_OneModeAtATime ==
    ~(isDrawing /\ interactionState # NoInteraction)

=============================================================================
